---- MODULE Spec2Model ----
(***************************************************************************)
(* Model of the fully_pub attribute macro (src/src/lib.rs).                *)
(*                                                                         *)
(* The macro receives one parsed syn::Item and an optional argument, walks *)
(* the item depth first, strips `#[fully_pub(exclude)]` markers and sets   *)
(* the visibility of what it reaches to `pub`.                             *)
(*                                                                         *)
(* A syntax node is a record                                               *)
(*    [kind, vis, attrs, trait_, content, items]                           *)
(* kind    the match arm the node falls into (see ItemKinds below)         *)
(* vis     syn::Visibility: "Inherited" (private), "Restricted" (such as   *)
(*         `pub(crate)`) or "Public"; "NoVis" for the node types that have *)
(*         no `vis` field                                                  *)
(* attrs   Vec<Attribute>, a sequence of [path, arg] records               *)
(* trait_  ItemImpl::trait_.is_some()                                      *)
(* content ItemMod::content.is_some()                                      *)
(* items   the children: ItemMod::content.1, ItemForeignMod::items,        *)
(*         ItemImpl::items, the fields of a struct or union                *)
(* A node of the tree is named by its path from the root, the sequence of  *)
(* child indexes.                                                          *)
(***************************************************************************)
EXTENDS Integers, Sequences, FiniteSets, TLC

VARIABLES
    input,      \* the item as parsed (never changes after Init)
    attr,       \* the macro's argument: Option<Ident>
    recursive,  \* the flag make_fully_pub computes from attr
    item,       \* the item, mutated in place by explore_item
    agenda,     \* the nodes the pending loops of explore_item still visit
    scanned,    \* the paths whose attribute list is_exclude has been called on
    err,        \* the Err the call is returning with (message and span), or NoError
    output,     \* what fully_pub has emitted
    pc,         \* where the invocation is: "call", "explore", "return", "done"
    pass,       \* how many times the macro has been applied
    first       \* what the first application emitted, once it is applied again

vars == <<input, attr, recursive, item, agenda, scanned, err, output, pc, pass, first>>

----------------------------------------------------------------------------
(* Bounds *)

\* The size of an input item: its nodes and all their attributes, each `pub`
\* and each trait of an impl counting for one more, a `pub(..)` for two more.
MaxWeight == 4

----------------------------------------------------------------------------
(* Attributes *)

CRATE_NAME == "fully_pub"

\* The markers: `#[fully_pub(exclude)]`, `#[fully_pub(other)]` (an identifier
\* that is not `exclude`) and `#[fully_pub(1)]` (not an identifier).
Exclude == [path |-> CRATE_NAME, arg |-> "exclude"]
Unknown == [path |-> CRATE_NAME, arg |-> "other"]
NotIdent == [path |-> CRATE_NAME, arg |-> "1"]
\* Two attributes of other crates.
Doc == [path |-> "doc", arg |-> ""]
Inline == [path |-> "inline", arg |-> ""]

Attrs == {Exclude, Unknown, NotIdent, Doc, Inline}

Idents == {"exclude", "other"}

IsMarker(a) == a.path = CRATE_NAME

\* Faulty variants of the scanner's steps, against which C4, C5 and C10 are
\* tested: no argument is unknown, no marker is a duplicate, and the kept
\* attributes are pushed to the front.
IsUnknown_Never(arg) == FALSE

IsDuplicate_Never(flag) == FALSE

push_Front(attrs, a) == <<a>> \o attrs

\* `arg != "exclude"`
IsUnknown(arg) == arg # "exclude"

\* `if is_exclude { bail!(..) }`: a marker seen when one was seen before.
IsDuplicate(flag) == flag

\* `attrs.push(attr)`
push(attrs, a) == Append(attrs, a)

\* The for loop of is_exclude: `rest` is what mem::take(attrs) still yields,
\* `kept` is attrs as pushed back so far, `flag` is the local is_exclude.
\* On Err the vector keeps what was pushed before the failing attribute.
RECURSIVE is_exclude_loop(_, _, _)
is_exclude_loop(rest, kept, flag) ==
    IF rest = <<>>
    THEN [ok |-> TRUE, excl |-> flag, attrs |-> kept, err |-> "none"]
    ELSE LET a == Head(rest) IN
         IF IsMarker(a)
         THEN IF a.arg \notin Idents
              THEN [ok |-> FALSE, excl |-> FALSE, attrs |-> kept, err |-> "ParseError"]
              ELSE IF IsUnknown(a.arg)
              THEN [ok |-> FALSE, excl |-> FALSE, attrs |-> kept, err |-> "UnknownArgument"]
              ELSE IF IsDuplicate(flag)
              THEN [ok |-> FALSE, excl |-> FALSE, attrs |-> kept, err |-> "DuplicateMarker"]
              ELSE is_exclude_loop(Tail(rest), kept, TRUE)
         ELSE is_exclude_loop(Tail(rest), push(kept, a), flag)

is_exclude(attrs) == is_exclude_loop(attrs, <<>>, FALSE)

\* Faulty variants of make_pub, against which C2 and C9 are tested: the
\* visibility is left as it is, and the visibility is toggled.
make_pub_Keep(vis) == vis

make_pub_Toggle(vis) == IF vis = "Public" THEN "Inherited" ELSE "Public"

make_pub(vis) == "Public"

----------------------------------------------------------------------------
(* Items *)

\* "Fn" stands for the arm Const | Enum | Fn | Static | Trait | TraitAlias | Type,
\* "Use" for the arm ExternCrate | Macro | Use.  A Mod with content = FALSE
\* (`mod m;`) falls into the catch-all arm.
ItemKinds == {"Fn", "Use", "ForeignMod", "Impl", "Mod", "Struct", "Union"}
\* ForeignItem::{Fn | Static | Type} and the others; ImplItem::{Const | Fn | Type}
\* and the others; Field.
ForeignKinds == {"ForeignFn", "ForeignMacro"}
ImplKinds == {"ImplFn", "ImplMacro"}
FieldKinds == {"Field"}

KindsIn(ctx) ==
    CASE ctx = "item" -> ItemKinds
      [] ctx = "foreign" -> ForeignKinds
      [] ctx = "impl" -> ImplKinds
      [] ctx = "field" -> FieldKinds

\* The node types with a `vis` field.
VisKinds == {"Fn", "Use", "Mod", "Struct", "Union", "ForeignFn", "ImplFn", "Field"}

VisOf(kind) ==
    IF kind \in VisKinds THEN {"Inherited", "Restricted", "Public"} ELSE {"NoVis"}

\* What the children of a node are.
ChildCtx(kind) ==
    CASE kind = "ForeignMod" -> "foreign"
      [] kind = "Impl" -> "impl"
      [] kind = "Mod" -> "item"
      [] kind \in {"Struct", "Union"} -> "field"
      [] OTHER -> "leaf"

Node(h, as, f) ==
    [kind |-> h.kind, vis |-> h.vis, attrs |-> as, trait_ |-> h.trait_,
     content |-> h.content, items |-> f]

\* A node without its attributes and children.
Heads(ctx) ==
    { h \in [kind : KindsIn(ctx), vis : {"Inherited", "Restricted", "Public", "NoVis"},
             trait_ : BOOLEAN, content : BOOLEAN] :
        /\ h.vis \in VisOf(h.kind)
        /\ h.trait_ => h.kind = "Impl"
        /\ h.content => h.kind = "Mod" }

HasItems(h) == ChildCtx(h.kind) # "leaf" /\ (h.kind = "Mod" => h.content)

\* The size of a node by itself: 1, plus 1 for a `pub` or 2 for a `pub(..)`,
\* plus 1 for the trait an impl block names.
HeadWeight(h) ==
    1 + (CASE h.vis = "Public" -> 1 [] h.vis = "Restricted" -> 2 [] OTHER -> 0)
      + (IF h.trait_ THEN 1 ELSE 0)

RECURSIVE SeqsOfLen(_, _)
SeqsOfLen(S, n) ==
    IF n = 0 THEN {<<>>}
    ELSE {Append(s, x) : s \in SeqsOfLen(S, n - 1), x \in S}

\* The nodes of context ctx of weight exactly w (the node by itself, plus 1
\* for each of its attributes, plus its children), and the sequences of them
\* of total weight exactly w.
RECURSIVE Trees(_, _)
RECURSIVE Forests(_, _)
Trees(ctx, w) ==
    UNION { { Node(h, as, f) :
                as \in SeqsOfLen(Attrs, a),
                f \in (IF w - HeadWeight(h) - a < 0 THEN {}
                       ELSE IF HasItems(h)
                       THEN Forests(ChildCtx(h.kind), w - HeadWeight(h) - a)
                       ELSE IF w - HeadWeight(h) - a = 0 THEN {<<>>} ELSE {}) }
            : h \in Heads(ctx), a \in 0..(w - 1) }
Forests(ctx, w) ==
    IF w = 0 THEN {<<>>}
    ELSE UNION { { <<t>> \o f : t \in Trees(ctx, k), f \in Forests(ctx, w - k) }
                 : k \in 1..w }

\* input is an item of weight at most MaxWeight.
InputChosen ==
    \E w \in 1..MaxWeight, h \in Heads("item"), a \in 0..(MaxWeight - 1) :
        LET r == w - HeadWeight(h) - a IN
        /\ r >= 0
        /\ \E as \in SeqsOfLen(Attrs, a) :
            \/ /\ r = 0
               /\ input = Node(h, as, <<>>)
            \/ /\ r > 0
               /\ HasItems(h)
               /\ \E k \in 1..r :
                    \E t \in Trees(ChildCtx(h.kind), k),
                       f \in Forests(ChildCtx(h.kind), r - k) :
                        input = Node(h, as, <<t>> \o f)

----------------------------------------------------------------------------
(* Paths *)

RECURSIVE NodeAt(_, _)
NodeAt(t, p) == IF p = <<>> THEN t ELSE NodeAt(t.items[Head(p)], Tail(p))

RECURSIVE SetAt(_, _, _)
SetAt(t, p, n) ==
    IF p = <<>> THEN n
    ELSE [t EXCEPT !.items[Head(p)] = SetAt(t.items[Head(p)], Tail(p), n)]

RECURSIVE Paths(_)
Paths(t) ==
    {<<>>} \cup UNION { { <<i>> \o q : q \in Paths(t.items[i]) }
                        : i \in 1..Len(t.items) }

ChildPaths(p, n) == [i \in 1..Len(n.items) |-> Append(p, i)]

NoError == [msg |-> "none", span |-> <<>>]

Init ==
    /\ InputChosen
    /\ attr \in {"None", "recursive", "deep"}
    /\ recursive = FALSE
    /\ item = input
    /\ agenda = <<>>
    /\ scanned = {}
    /\ err = NoError
    /\ output = [tag |-> "none"]
    /\ pc = "call"
    /\ pass = 1
    /\ first = [tag |-> "none"]

----------------------------------------------------------------------------
(* make_fully_pub *)

\* Parses the macro's argument and enters explore_item on the root.
MakeFullyPub ==
    /\ pc = "call"
    /\ IF attr = "recursive" \/ attr = "None"
       THEN /\ recursive' = (attr = "recursive")
            /\ agenda' = << <<>> >>
            /\ pc' = "explore"
            /\ err' = err
       ELSE /\ err' = [msg |-> "InvalidArgument", span |-> <<>>]
            /\ pc' = "return"
            /\ UNCHANGED <<recursive, agenda>>
    /\ UNCHANGED <<input, attr, item, scanned, output, pass, first>>

----------------------------------------------------------------------------
(* explore_item *)

Current == Head(agenda)
CurrentNode == NodeAt(item, Current)
Exploring(kinds) == pc = "explore" /\ agenda # <<>> /\ CurrentNode.kind \in kinds

\* Faulty variants, against which C1 and C8 are tested: the marker does not
\* keep the node from being made public, and an Err only ends the visit of
\* the node it is raised at.
ShouldPub_IgnoringMarker(setsVis, excl) == setsVis

ReturnErr_Continue(pending) == Tail(pending)

\* `if !is_exclude(attrs)? { make_pub(vis); .. }`: whether the arm makes the
\* node public, given whether the arm has a `vis` to set and what is_exclude said.
ShouldPub(setsVis, excl) == setsVis /\ ~excl

\* The `?` after is_exclude and after the recursive call: an Err returns
\* through every pending loop, so nothing is left to visit.
ReturnErr(pending) == <<>>

\* `if !is_exclude(attrs)? { [make_pub(vis);] [for child in children ..] }`
\* on the node at the head of the agenda: setsVis says whether the arm calls
\* make_pub on the node, children are the paths the arm's loop would visit.
ScanAndPub(setsVis, children) ==
    LET p == Current
        n == CurrentNode
        r == is_exclude(n.attrs)
        rest == IF ~r.ok THEN ReturnErr(agenda)
                ELSE IF r.excl THEN Tail(agenda)
                ELSE children \o Tail(agenda)
    IN  /\ scanned' = scanned \cup {p}
        /\ item' = SetAt(item, p,
              [n EXCEPT !.attrs = r.attrs,
                        !.vis = IF r.ok /\ ShouldPub(setsVis, r.excl)
                                THEN make_pub(@) ELSE @])
        /\ agenda' = rest
        /\ pc' = IF rest = <<>> THEN "return" ELSE "explore"
        /\ err' = IF r.ok THEN err ELSE [msg |-> r.err, span |-> p]
        /\ UNCHANGED <<input, attr, recursive, output, pass, first>>

\* An arm that does nothing: `=> ()`.
Skip ==
    /\ agenda' = Tail(agenda)
    /\ pc' = IF Tail(agenda) = <<>> THEN "return" ELSE "explore"
    /\ UNCHANGED <<input, attr, recursive, item, scanned, err, output, pass, first>>

\* Item::Const | Enum | Fn | Static | Trait | TraitAlias | Type
ExploreFn == Exploring({"Fn"}) /\ ScanAndPub(TRUE, <<>>)

\* Item::ExternCrate | Macro | Use
ExploreUse == Exploring({"Use"}) /\ Skip

\* Item::ForeignMod
ExploreForeignMod ==
    Exploring({"ForeignMod"}) /\ ScanAndPub(FALSE, ChildPaths(Current, CurrentNode))

ForeignItemFn == Exploring({"ForeignFn"}) /\ ScanAndPub(TRUE, <<>>)

ForeignItemOther == Exploring({"ForeignMacro"}) /\ Skip

\* A faulty variant, against which C6 is tested: a trait impl is treated as
\* an inherent one.
ImplApplies_Always(n) == TRUE

\* `trait_.is_none() && ...`: whether the Impl arm does anything to the block.
ImplApplies(n) == ~n.trait_

\* Item::Impl
ExploreImpl ==
    /\ Exploring({"Impl"})
    /\ IF ImplApplies(CurrentNode)
       THEN ScanAndPub(FALSE, ChildPaths(Current, CurrentNode))
       ELSE Skip

ImplItemFn == Exploring({"ImplFn"}) /\ ScanAndPub(TRUE, <<>>)

ImplItemOther == Exploring({"ImplMacro"}) /\ Skip

\* Faulty variants, against which C3 and C7 are tested: the descent stops
\* below the root module, and the descent ignores the flag.
ModDescent_OneLevel(rec, p, n) == IF rec /\ p = <<>> THEN ChildPaths(p, n) ELSE <<>>

ModDescent_Always(rec, p, n) == ChildPaths(p, n)

\* `if recursive { for item in content { explore_item(item, recursive)?; } }`
ModDescent(rec, p, n) == IF rec THEN ChildPaths(p, n) ELSE <<>>

\* Item::Mod with content: Some(..)
ExploreMod ==
    /\ Exploring({"Mod"})
    /\ CurrentNode.content
    /\ ScanAndPub(TRUE, ModDescent(recursive, Current, CurrentNode))

\* Item::Struct
ExploreStruct ==
    Exploring({"Struct"}) /\ ScanAndPub(TRUE, ChildPaths(Current, CurrentNode))

\* Item::Union
ExploreUnion ==
    Exploring({"Union"}) /\ ScanAndPub(TRUE, ChildPaths(Current, CurrentNode))

\* `for Field { vis, attrs, .. } in fields`
ExploreField == Exploring({"Field"}) /\ ScanAndPub(TRUE, <<>>)

\* The catch-all arm `_ => ()`: here a Mod without content (`mod m;`).
ExploreOther ==
    /\ Exploring({"Mod"})
    /\ ~CurrentNode.content
    /\ Skip

----------------------------------------------------------------------------
(* fully_pub *)

\* Ok(_) => quote! { #item }
EmitItem ==
    /\ pc = "return"
    /\ err = NoError
    /\ output' = [tag |-> "item", item |-> item]
    /\ pc' = "done"
    /\ UNCHANGED <<input, attr, recursive, item, agenda, scanned, err, pass, first>>

\* Err(e) => e.to_compile_error()
EmitError ==
    /\ pc = "return"
    /\ err # NoError
    /\ output' = [tag |-> "error", error |-> err.msg]
    /\ pc' = "done"
    /\ UNCHANGED <<input, attr, recursive, item, agenda, scanned, err, pass, first>>

\* The macro applied once more, with the same argument, to the item it emitted.
Reapply ==
    /\ pc = "done"
    /\ pass = 1
    /\ output.tag = "item"
    /\ first' = output
    /\ pass' = 2
    /\ pc' = "call"
    /\ output' = [tag |-> "none"]
    /\ scanned' = {}
    /\ UNCHANGED <<input, attr, recursive, item, agenda, err>>

Next ==
    \/ MakeFullyPub
    \/ ExploreFn
    \/ ExploreUse
    \/ ExploreForeignMod
    \/ ForeignItemFn
    \/ ForeignItemOther
    \/ ExploreImpl
    \/ ImplItemFn
    \/ ImplItemOther
    \/ ExploreMod
    \/ ExploreStruct
    \/ ExploreUnion
    \/ ExploreField
    \/ ExploreOther
    \/ EmitItem
    \/ EmitError

Spec == Init /\ [][Next]_vars

SpecTwice == Init /\ [][Next \/ Reapply]_vars

----------------------------------------------------------------------------
(* Vocabulary of the properties *)

In(p) == NodeAt(input, p)
Now(p) == NodeAt(item, p)
Out(p) == NodeAt(output.item, p)

\* The first application has ended / has ended with an item emitted.
Done == pc = "done" /\ pass = 1
Succeeded == Done /\ output.tag = "item"

Markers(as) == SelectSeq(as, IsMarker)
HasMarker(as) == Markers(as) # <<>>
\* The node carries one marker, and it is `#[fully_pub(exclude)]`.
ValidlyExcluded(n) == Markers(n.attrs) = <<Exclude>>

NotMarker(a) == ~IsMarker(a)
WithoutMarkers(as) == SelectSeq(as, NotMarker)

IsPrefix(q, p) == Len(q) <= Len(p) /\ SubSeq(p, 1, Len(q)) = q
ProperPrefixes(p) == { SubSeq(p, 1, n) : n \in 0..(Len(p) - 1) }

\* p comes before q in depth-first document order.
RECURSIVE Before(_, _)
Before(p, q) ==
    IF p = <<>> THEN q # <<>>
    ELSE IF q = <<>> THEN FALSE
    ELSE IF Head(p) = Head(q) THEN Before(Tail(p), Tail(q))
    ELSE Head(p) < Head(q)

\* The node types the rule table gives a visibility that the rewrite sets.
SetsVisibility(n) ==
    \/ n.kind \in {"Fn", "Struct", "Union", "ForeignFn", "ImplFn", "Field"}
    \/ n.kind = "Mod" /\ n.content

\* The node types whose attribute list the rule table has scanned.
IsScannedKind(n) ==
    \/ SetsVisibility(n)
    \/ n.kind = "ForeignMod"
    \/ n.kind = "Impl" /\ ~n.trait_

\* The rule table descends from n into its children.
DescendsFrom(n, rec) ==
    /\ IsScannedKind(n)
    /\ ~HasMarker(n.attrs)
    /\ n.kind = "Mod" => rec

\* The rule table, read on the input alone, reaches the node at p and scans it:
\* every node above it is one the rules descend from.
Reached(p) ==
    /\ IsScannedKind(In(p))
    /\ \A q \in ProperPrefixes(p) : DescendsFrom(In(q), attr = "recursive")

\* The items inside the root module, at every depth.
IsInnerItem(p) ==
    /\ p # <<>>
    /\ \A q \in ProperPrefixes(p) : In(q).kind = "Mod"

ValidationErrors == {"UnknownArgument", "DuplicateMarker", "ParseError"}
Failed == err.msg \in ValidationErrors

----------------------------------------------------------------------------
(* C1 *)

\* C1 as stated: after a successful rewrite, every node that carried a valid
\* `exclude` marker has its input visibility and has lost the marker.
C1_AsStated ==
    Succeeded =>
        \A p \in Paths(input) :
            ValidlyExcluded(In(p)) =>
                /\ Out(p).vis = In(p).vis
                /\ ~HasMarker(Out(p).attrs)

\* C1, amended: after a successful rewrite, every node that carried a valid
\* `exclude` marker has its input visibility; the marker is gone from it when
\* the traversal reaches the node, and the node is wholly unchanged, marker
\* included, when the traversal does not reach it.
C1_ExcludedKeepsVisibility ==
    Succeeded =>
        \A p \in Paths(input) :
            ValidlyExcluded(In(p)) =>
                /\ Out(p).vis = In(p).vis
                /\ Reached(p) => Out(p).attrs = WithoutMarkers(In(p).attrs)
                /\ ~Reached(p) => Out(p) = In(p)

\* A public field with a marker, in a struct without one, has been rewritten.
C1_Witness ==
    /\ Succeeded
    /\ \E p \in Paths(input) :
        /\ p # <<>>
        /\ ValidlyExcluded(In(p))
        /\ Reached(p)
        /\ In(p).vis = "Public"

----------------------------------------------------------------------------
(* C2 *)

\* C2 as stated: after a successful rewrite, every node of a kind that has a
\* visibility and that carries no marker is Public.
C2_AsStated ==
    Succeeded =>
        \A p \in Paths(input) :
            SetsVisibility(In(p)) /\ ~HasMarker(In(p).attrs) =>
                Out(p).vis = "Public"

\* C2, amended: after a successful rewrite, every node of a kind that has a
\* visibility, that carries no marker and that the traversal reaches is
\* Public, whatever its input visibility; one the traversal does not reach
\* keeps its input visibility.
C2_ReachedIsPublic ==
    Succeeded =>
        \A p \in Paths(input) :
            SetsVisibility(In(p)) /\ ~HasMarker(In(p).attrs) =>
                /\ Reached(p) => Out(p).vis = "Public"
                /\ ~Reached(p) => Out(p).vis = In(p).vis

\* A private member without a marker has been made public.
C2_Witness ==
    /\ Succeeded
    /\ \E p \in Paths(input) :
        /\ p # <<>>
        /\ SetsVisibility(In(p))
        /\ ~HasMarker(In(p).attrs)
        /\ In(p).vis = "Inherited"
        /\ Out(p).vis = "Public"

----------------------------------------------------------------------------
(* C3 *)

RecursiveOnModule ==
    /\ Succeeded
    /\ attr = "recursive"
    /\ input.kind = "Mod"
    /\ input.content

\* C3 as stated: after a successful recursive rewrite of a module with a
\* body, every item inside it, at every depth, is Public unless it carried a
\* marker itself, and no marker remains on any item.
C3_AsStated ==
    RecursiveOnModule =>
        \A p \in Paths(input) :
            IsInnerItem(p) =>
                /\ SetsVisibility(In(p)) /\ ~HasMarker(In(p).attrs)
                      => Out(p).vis = "Public"
                /\ ~HasMarker(Out(p).attrs)

\* C3, amended: after a successful recursive rewrite of a module with a body,
\* every item inside it whose enclosing modules, the root included, carry no
\* marker is Public unless it carried a marker itself (when it is of a kind
\* whose visibility the rules set), and no marker remains on it (when it is of
\* a kind the rules scan); the items inside a module that carries a marker are
\* unchanged.
C3_RecursiveModule ==
    RecursiveOnModule =>
        \A p \in Paths(input) :
            IsInnerItem(p) =>
                IF \A q \in ProperPrefixes(p) : ~HasMarker(In(q).attrs)
                THEN /\ SetsVisibility(In(p)) /\ ~HasMarker(In(p).attrs)
                          => Out(p).vis = "Public"
                     /\ IsScannedKind(In(p)) => ~HasMarker(Out(p).attrs)
                ELSE Out(p) = In(p)

\* An item two modules deep was private and is public.
C3_Witness ==
    /\ RecursiveOnModule
    /\ \E p \in Paths(input) :
        /\ IsInnerItem(p)
        /\ Len(p) = 2
        /\ In(p).vis = "Inherited"
        /\ Out(p).vis = "Public"

----------------------------------------------------------------------------
(* C4 *)

\* C4 as stated: when a node carries two or more markers, the rewrite fails
\* with DuplicateMarker and emits no item.
C4_AsStated ==
    Done /\ attr # "deep" =>
        \A p \in Paths(input) :
            Len(Markers(In(p).attrs)) >= 2 =>
                output = [tag |-> "error", error |-> "DuplicateMarker"]

\* C4, amended: when a node the traversal reaches carries two or more markers,
\* the rewrite fails and emits no item; when that node is the one the error is
\* raised at, the error is DuplicateMarker exactly if the node's first two
\* markers are both `exclude`.
C4_DuplicateMarker ==
    Done /\ attr # "deep" =>
        \A p \in Paths(input) :
            Reached(p) /\ Len(Markers(In(p).attrs)) >= 2 =>
                /\ output.tag = "error"
                /\ err.span = p =>
                    (output.error = "DuplicateMarker"
                        <=> SubSeq(Markers(In(p).attrs), 1, 2) = <<Exclude, Exclude>>)

\* A field with two `exclude` markers has made the rewrite fail.
C4_Witness ==
    /\ Done
    /\ output = [tag |-> "error", error |-> "DuplicateMarker"]
    /\ err.span # <<>>
    /\ Len(Markers(In(err.span).attrs)) >= 2

----------------------------------------------------------------------------
(* C5 *)

\* The marker of the list at which is_exclude stops: the first one that is
\* not `exclude`, or the second `exclude`.
StopsAt(ms) == IF ms[1] # Exclude THEN ms[1] ELSE ms[2]

\* C5 as stated: when a node carries a marker whose argument is an identifier
\* other than `exclude`, the rewrite fails with UnknownMarkerArgument.
C5_AsStated ==
    Done /\ attr # "deep" =>
        \A p \in Paths(input) :
            (\E i \in DOMAIN In(p).attrs : In(p).attrs[i] = Unknown) =>
                output = [tag |-> "error", error |-> "UnknownArgument"]

\* C5, amended: when a node the traversal reaches carries a marker whose
\* argument is an identifier other than `exclude`, the rewrite fails and emits
\* no item; when that node is the one the error is raised at, the error is
\* UnknownMarkerArgument exactly if that marker is the node's first marker
\* that is not a first `exclude`.
C5_UnknownArgument ==
    Done /\ attr # "deep" =>
        \A p \in Paths(input) :
            Reached(p) /\ (\E i \in DOMAIN In(p).attrs : In(p).attrs[i] = Unknown) =>
                /\ output.tag = "error"
                /\ err.span = p =>
                    (output.error = "UnknownArgument"
                        <=> StopsAt(Markers(In(p).attrs)) = Unknown)

\* A member with `#[fully_pub(other)]` has made the rewrite fail.
C5_Witness ==
    /\ Done
    /\ output = [tag |-> "error", error |-> "UnknownArgument"]
    /\ err.span # <<>>
    /\ \E i \in DOMAIN In(err.span).attrs : In(err.span).attrs[i] = Unknown

----------------------------------------------------------------------------
(* C6 *)

IsTraitImpl(n) == n.kind = "Impl" /\ n.trait_

\* C6: an impl block that implements a trait is at every moment what it was
\* in the input, in every field and with every member, markers included; no
\* validation error is raised at it or inside it; and the rewrite of such a
\* block emits the block as it was.
C6_TraitImplUntouched ==
    pass = 1 =>
        \A p \in Paths(input) :
            IsTraitImpl(In(p)) =>
                /\ Now(p) = In(p)
                /\ \A q \in Paths(input) : IsPrefix(p, q) => q \notin scanned
                /\ Failed => ~IsPrefix(p, err.span)
                /\ p = <<>> /\ Done /\ attr # "deep"
                      => output = [tag |-> "item", item |-> input]

\* The rewrite of a trait impl that carries a marker which would not pass
\* validation, on the block or on a member, has ended.
C6_Witness ==
    /\ Done
    /\ attr # "deep"
    /\ IsTraitImpl(input)
    /\ \E p \in Paths(input) :
        /\ HasMarker(In(p).attrs)
        /\ ~is_exclude(In(p).attrs).ok

----------------------------------------------------------------------------
(* C7 *)

\* C7: the rewrite, without `recursive`, of a module that has a body and no
\* marker emits the module Public, with its own attributes and every item of
\* its body as they were.
C7_ShallowModule ==
    Done /\ attr = "None" /\ input.kind = "Mod" /\ input.content
         /\ ~HasMarker(input.attrs) =>
        output = [tag |-> "item", item |-> [input EXCEPT !.vis = "Public"]]

\* Such a rewrite has ended on a private module whose body holds a private item
\* with a marker.
C7_Witness ==
    /\ Done
    /\ attr = "None"
    /\ input.kind = "Mod"
    /\ input.vis = "Inherited"
    /\ ~HasMarker(input.attrs)
    /\ \E i \in DOMAIN input.items :
        /\ HasMarker(input.items[i].attrs)
        /\ input.items[i].vis = "Inherited"

----------------------------------------------------------------------------
(* C8 *)

\* C8: once a validation error is raised at a node, nothing is left to visit,
\* no node after it in depth-first document order has been scanned or differs
\* from the input, and what the invocation emits is the error, never an item.
C8_ErrorAborts ==
    Failed =>
        /\ agenda = <<>>
        /\ err.span \in scanned
        /\ \A q \in Paths(input) :
              Before(err.span, q) => q \notin scanned /\ Now(q) = In(q)
        /\ output.tag # "item"
        /\ pc = "done" => output = [tag |-> "error", error |-> err.msg]

\* An error was raised at a node that a private sibling follows, and the
\* invocation has ended.
C8_Witness ==
    /\ Failed
    /\ pc = "done"
    /\ \E q \in Paths(input) :
        /\ Before(err.span, q)
        /\ ~IsPrefix(err.span, q)
        /\ SetsVisibility(In(q))
        /\ In(q).vis = "Inherited"
        /\ Reached(q)

----------------------------------------------------------------------------
(* C9 *)

\* The second application has ended with an item emitted.
SucceededTwice == pc = "done" /\ pass = 2 /\ output.tag = "item"

Once(p) == NodeAt(first.item, p)

\* C9 as stated: the second application leaves every node with the visibility
\* the first application gave it.
C9_AsStated ==
    SucceededTwice =>
        \A p \in Paths(input) : Out(p).vis = Once(p).vis

\* C9, amended: the second application never takes Public away from a node,
\* and it changes the visibility of a node only to Public and only where the
\* first application stripped a marker from the node or from a node above it.
C9_NeverLessPublic ==
    SucceededTwice =>
        \A p \in Paths(input) :
            /\ Once(p).vis = "Public" => Out(p).vis = "Public"
            /\ Out(p).vis # Once(p).vis =>
                /\ Out(p).vis = "Public"
                /\ \E q \in Paths(input) :
                    /\ IsPrefix(q, p)
                    /\ HasMarker(In(q).attrs)
                    /\ ~HasMarker(Once(q).attrs)

\* The second application has ended, and a node the first application made
\* Public is Public, while another one just became Public.
C9_Witness ==
    /\ SucceededTwice
    /\ \E p \in Paths(input) :
        /\ In(p).vis = "Inherited"
        /\ Once(p).vis = "Public"
        /\ Out(p).vis = "Public"
    /\ \E p \in Paths(input) :
        /\ Once(p).vis = "Inherited"
        /\ Out(p).vis = "Public"

----------------------------------------------------------------------------
(* C10 *)

\* C10: when is_exclude returns Ok on the attribute list of a node, the list
\* it leaves is the input list without its markers, the other attributes in
\* their input order, and it returns true exactly if the list held one marker,
\* a valid one, and false exactly if it held none; the node the traversal
\* scanned holds that list.
C10_ScannerStripsMarkers ==
    pass = 1 =>
        \A p \in Paths(input) :
            LET r == is_exclude(In(p).attrs) IN
            /\ r.ok =>
                /\ r.attrs = WithoutMarkers(In(p).attrs)
                /\ r.excl <=> ValidlyExcluded(In(p))
                /\ ~r.excl <=> ~HasMarker(In(p).attrs)
            /\ p \in scanned /\ ~Failed => Now(p).attrs = WithoutMarkers(In(p).attrs)

\* A scanned node had a marker between two other attributes.
C10_Witness ==
    /\ Succeeded
    /\ \E p \in scanned :
        /\ In(p).attrs = <<Doc, Exclude, Inline>>
        /\ Out(p).attrs = <<Doc, Inline>>

====
